---- MODULE Spec2Model ----
(***************************************************************************)
(* backup.py: space-bounded directory backups.  One run of the script is   *)
(* modelled statement group by statement group (argument validation, name  *)
(* collision check, admission, the eviction loop, the copy); the file      *)
(* system is the backup root's directory listing plus the size `du`        *)
(* reports for the input directory and for the root directory itself.      *)
(***************************************************************************)
EXTENDS Integers, Sequences, FiniteSets, TLC

(* ---------------------------- bounds ---------------------------------- *)
MaxEntries == 2      \* entries in the backup root before the first run
MaxRuns == 2         \* consecutive runs of the script in one behaviour

Sizes == {0, 1, 2}          \* `du -sk` results for an entry / the input
DirOverheads == {0, 1}      \* KB `du -sk` counts for the root directory itself
Times == 1 .. 2             \* ctime values of pre-existing entries (ties allowed)

(* ------------------------- strings and paths --------------------------- *)
\* A Python str is a sequence of one-character strings.
Script == <<"b">>
InputDir == <<"i", "n">>
BackupDir == <<"b", "a", "k">>
Missing == <<"n", "o">>
Extra == <<"e">>

Digits == {"0", "1", "2", "3", "4", "5", "6", "7", "8", "9"}

DigitVal(c) ==
  CASE c = "0" -> 0 [] c = "1" -> 1 [] c = "2" -> 2 [] c = "3" -> 3
    [] c = "4" -> 4 [] c = "5" -> 5 [] c = "6" -> 6 [] c = "7" -> 7
    [] c = "8" -> 8 [] c = "9" -> 9

\* The size-cap tokens tried on the command line.
SizeTokens ==
  { <<"1">>, <<"4">>, <<"1", "0">>, <<"-", "1">>, <<"+", "4">>, <<"x">>, <<"S">> }

\* "S" stands for a superscript digit: str.isnumeric() accepts it, int() does not.
NumericChars == Digits \cup {"S"}

\* str.isnumeric(): non-empty and every character numeric.
IsNumeric(s) == Len(s) > 0 /\ \A i \in 1 .. Len(s) : s[i] \in NumericChars

IsDecimal(s) == Len(s) > 0 /\ \A i \in 1 .. Len(s) : s[i] \in Digits

RECURSIVE DecVal(_)
DecVal(s) ==
  IF Len(s) = 0 THEN 0
  ELSE DecVal(SubSeq(s, 1, Len(s) - 1)) * 10 + DigitVal(s[Len(s)])

\* int(str): an optional sign followed by decimal digits; anything else
\* raises ValueError.
IntParses(s) ==
  IF Len(s) > 0 /\ s[1] \in {"+", "-"} THEN IsDecimal(Tail(s)) ELSE IsDecimal(s)

PyInt(s) ==
  IF s[1] = "-" THEN 0 - DecVal(Tail(s))
  ELSE IF s[1] = "+" THEN DecVal(Tail(s))
  ELSE DecVal(s)

\* os.path.lexists / os.path.exists on a command-line path.
PathExists(p) == p \in {InputDir, BackupDir}

(* ------------------------------ state ---------------------------------- *)
VARIABLES
  argv,          \* sys.argv, argv[1] being the script name
  inputSize,     \* what du reports for the input directory
  dirOverhead,   \* what du adds for the backup root directory itself
  root,          \* os.listdir(backup root): entries in listing order
  now,           \* the clock, in seconds: datetime.now() of the running script
  run,           \* number of the current run
  pc,            \* position of the current run in the script
  exitStatus,    \* process exit status of the current run (-1 while running)
  outcome,       \* how the current run ended
  out,           \* messages printed by the current run
  outputFolder,  \* output_folder (name inside the backup root), None before
  admitted,      \* result of check_backup_possible in the current run
  inKb,          \* input_folder_size_kilobytes of purge_old_backups_as_required
  bakKb,         \* backup_folder_size_kilobytes
  oldest,        \* oldest_backup_folder
  purged,        \* deletions of the current run, in order: the entry
                 \* deleted and the listing it was deleted from
  calls,         \* calls and returns of the current run, in order
  root0,         \* the listing when the current run started
  rootInit,      \* the listing when the first run started
  prev,          \* second and outcome of the previous run
  procs          \* the local state of two runs started side by side

vars == << argv, inputSize, dirOverhead, root, now, run, pc, exitStatus, outcome,
           out, outputFolder, admitted, inKb, bakKb, oldest, purged, calls,
           root0, rootInit, prev, procs >>

None == 0
NoPrev == [second |-> 0, outcome |-> "none"]

\* No runs side by side: the sequential script alone.
NoProcs == << >>

(* --------------------------- file system ------------------------------- *)
Names(r) == { r[i].name : i \in 1 .. Len(r) }

RECURSIVE SumSizes(_)
SumSizes(r) == IF Len(r) = 0 THEN 0 ELSE r[1].size + SumSizes(Tail(r))

EntryNamed(r, n) == r[CHOOSE i \in 1 .. Len(r) : r[i].name = n]

\* Mutant: the deletion leaves the entry in place.
RemoveEntryKeeps(r, n) == SelectSeq(r, LAMBDA e : e.name # n \/ e.name = n)

RemoveEntry(r, n) == SelectSeq(r, LAMBDA e : e.name # n)

InsertAt(r, pos, e) == SubSeq(r, 1, pos - 1) \o <<e>> \o SubSeq(r, pos, Len(r))

\* get_size_kilobytes(backup_folder): du -sk of the whole subtree.
GetSizeKilobytesRoot(r) == dirOverhead + SumSizes(r)

\* get_size_kilobytes of one entry of the backup root.
GetSizeKilobytesEntry(r, n) == EntryNamed(r, n).size

\* Mutant: the sort is descending.
InsertStableDescending(s, e) ==
  LET k == Cardinality({ i \in 1 .. Len(s) : s[i].ctime >= e.ctime })
  IN  InsertAt(s, k + 1, e)

\* Mutant: equal keys come out in reverse listing order.
InsertStableBeforeEquals(s, e) ==
  LET k == Cardinality({ i \in 1 .. Len(s) : s[i].ctime < e.ctime })
  IN  InsertAt(s, k + 1, e)

\* sorted(..., key=getctime): Python's sort is stable.
InsertStable(s, e) ==
  LET k == Cardinality({ i \in 1 .. Len(s) : s[i].ctime <= e.ctime })
  IN  InsertAt(s, k + 1, e)

RECURSIVE SortedByCtime(_)
SortedByCtime(r) ==
  IF Len(r) = 0 THEN << >>
  ELSE InsertStable(SortedByCtime(SubSeq(r, 1, Len(r) - 1)), r[Len(r)])

\* Mutant: takes the other end of the sorted listing.
OldestInDirectoryLast(r) ==
  LET files == SortedByCtime(r)
  IN  IF Len(files) = 0 THEN None ELSE files[Len(files)].name

OldestInDirectory(r) ==
  LET files == SortedByCtime(r)
  IN  IF Len(files) = 0 THEN None ELSE files[1].name

NewestInDirectory(r) ==
  LET files == SortedByCtime(r)
  IN  IF Len(files) = 0 THEN None ELSE files[Len(files)].name

\* Mutant: the newest backup's size is added to the budget, not reserved.
CheckBackupPossibleSignSlip(inputKb, r, maxKb) ==
  LET newest == NewestInDirectory(r)
      newestKb == IF newest # None THEN GetSizeKilobytesEntry(r, newest) ELSE 0
  IN  inputKb <= maxKb + newestKb

\* Mutant: strict comparison.
CheckBackupPossibleStrict(inputKb, r, maxKb) ==
  LET newest == NewestInDirectory(r)
      newestKb == IF newest # None THEN GetSizeKilobytesEntry(r, newest) ELSE 0
  IN  inputKb < maxKb - newestKb

CheckBackupPossible(inputKb, r, maxKb) ==
  LET newest == NewestInDirectory(r)
      newestKb == IF newest # None THEN GetSizeKilobytesEntry(r, newest) ELSE 0
  IN  inputKb <= maxKb - newestKb

(* ------------------------------- Init ---------------------------------- *)
Entries == [name : 1 .. MaxEntries, ctime : Times, size : Sizes]

\* Listings of at most MaxEntries entries; the i-th listed entry is named i.
Roots ==
  UNION { { r \in [1 .. k -> Entries] : \A i \in 1 .. k : r[i].name = i }
          : k \in 0 .. MaxEntries }

\* Command lines of one to five elements: every size token with paths that
\* exist, and every combination of existing and missing paths with "4".
Argvs ==
  { <<Script>>, <<Script, InputDir>>, <<Script, InputDir, BackupDir>> }
  \cup { <<Script, InputDir, BackupDir, c>> : c \in SizeTokens }
  \cup { <<Script, a[1], a[2], <<"4">> >> :
           a \in {InputDir, Missing} \X {BackupDir, Missing} }
  \cup { <<Script, InputDir, BackupDir, c, Extra>> : c \in SizeTokens }
  \cup { <<Script, a[1], a[2], <<"4">>, Extra>> :
           a \in {InputDir, Missing} \X {BackupDir, Missing} }

\* The small inputs: every command line against every small file system.
SmallInputs ==
  [argv : Argvs, inputSize : Sizes, dirOverhead : DirOverheads, root : Roots,
   now : {1, MaxEntries + 1}]

\* The end-to-end scenarios, in kilobytes: python3 backup.py in bak 100 with
\* an empty root and a 10 KB input, with one 90 KB entry and a 20 KB input,
\* and with three 30 KB entries (listed oldest first) and a 15 KB input; on
\* a file system where du counts nothing, or one 4 KB block, for the root
\* directory itself.
ScenarioArgv == << Script, InputDir, BackupDir, <<"1", "0", "0">> >>

Scenario1 == [root |-> << >>, inputSize |-> 10]

Scenario2 == [root |-> << [name |-> 1, ctime |-> 1, size |-> 90] >>, inputSize |-> 20]

Scenario3 ==
  [root |-> << [name |-> 1, ctime |-> 1, size |-> 30],
               [name |-> 2, ctime |-> 2, size |-> 30],
               [name |-> 3, ctime |-> 3, size |-> 30] >>,
   inputSize |-> 15]

ScenarioInputs ==
  { [argv |-> ScenarioArgv, inputSize |-> sc.inputSize, dirOverhead |-> d,
     root |-> sc.root, now |-> Len(sc.root) + 1] :
      sc \in {Scenario1, Scenario2, Scenario3}, d \in {0, 4} }

Init ==
  /\ \E i \in SmallInputs \cup ScenarioInputs :
       /\ argv = i.argv
       /\ inputSize = i.inputSize
       /\ dirOverhead = i.dirOverhead
       /\ root = i.root
       /\ now = i.now
  /\ run = 1
  /\ pc = "validate"
  /\ exitStatus = -1
  /\ outcome = "running"
  /\ out = << >>
  /\ outputFolder = None
  /\ admitted = FALSE
  /\ inKb = 0
  /\ bakKb = 0
  /\ oldest = None
  /\ purged = << >>
  /\ calls = << >>
  /\ root0 = root
  /\ rootInit = root
  /\ prev = NoPrev
  /\ procs = NoProcs

(* ------------------------------ actions -------------------------------- *)
Exit(status, how) ==
  /\ pc' = "exit"
  /\ exitStatus' = status
  /\ outcome' = how

\* Lines 123-129 with fewer than four elements in sys.argv: sys.argv[1],
\* sys.argv[2] or sys.argv[3] raises IndexError; the interpreter prints a
\* traceback on stderr and exits with status 1.
ValidateIndexError ==
  /\ pc = "validate"
  /\ Len(argv) < 4
  /\ Exit(1, "exception")
  /\ UNCHANGED << argv, inputSize, dirOverhead, root, now, run, out, outputFolder,
                  admitted, inKb, bakKb, oldest, purged, calls, root0, rootInit, prev, procs >>

HasRequiredArgs == Len(argv) # 4

HasValidArgs == PathExists(argv[2]) /\ PathExists(argv[3]) /\ IsNumeric(argv[4])

\* Lines 123-134.
Validate ==
  /\ pc = "validate"
  /\ Len(argv) >= 4
  /\ IF HasRequiredArgs /\ HasValidArgs
     THEN /\ out' = Append(out, [msg |-> "usage", path |-> None])
          /\ Exit(1, "usage")
     ELSE /\ pc' = "name"
          /\ UNCHANGED << out, exitStatus, outcome >>
  /\ UNCHANGED << argv, inputSize, dirOverhead, root, now, run, outputFolder,
                  admitted, inKb, bakKb, oldest, purged, calls, root0, rootInit, prev, procs >>

\* get_new_backup_name: the name is the clock formatted to the second.
GetNewBackupName == now

\* Mutant: exists() asked about the bare name in the working directory,
\* which holds no backups.
OutputExistsUnjoined(name) == name \in Names(<< >>)

OutputExists(name) == argv[3] = BackupDir /\ name \in Names(root)

\* Mutant: the conflict is reported but the run goes on.
NameCheckGoesOn ==
  /\ pc = "name"
  /\ outputFolder' = GetNewBackupName
  /\ out' = IF OutputExists(GetNewBackupName)
            THEN Append(out, [msg |-> "conflict", path |-> GetNewBackupName])
            ELSE out
  /\ pc' = "admit"
  /\ UNCHANGED << argv, inputSize, dirOverhead, root, now, run, exitStatus, outcome,
                  admitted, inKb, bakKb, oldest, purged, calls, root0, rootInit, prev, procs >>

\* Lines 136-141.
NameCheck ==
  /\ pc = "name"
  /\ outputFolder' = GetNewBackupName
  /\ IF OutputExists(GetNewBackupName)
     THEN /\ out' = Append(out, [msg |-> "conflict", path |-> GetNewBackupName])
          /\ Exit(2, "collision")
     ELSE /\ pc' = "admit"
          /\ UNCHANGED << out, exitStatus, outcome >>
  /\ UNCHANGED << argv, inputSize, dirOverhead, root, now, run,
                  admitted, inKb, bakKb, oldest, purged, calls, root0, rootInit, prev, procs >>

MaxBackupSize == PyInt(argv[4])

\* The call of lines 142-146 evaluates without an exception.
AdmitEvaluates == IntParses(argv[4]) /\ PathExists(argv[2]) /\ PathExists(argv[3])

\* Lines 142-146 when evaluating the call raises: int() raises ValueError,
\* du of a missing input prints nothing (IndexError on split()[0]),
\* os.listdir of a missing backup folder raises FileNotFoundError.
AdmitRaises ==
  /\ pc = "admit"
  /\ ~AdmitEvaluates
  /\ calls' = IF IntParses(argv[4]) THEN Append(calls, "check_backup_possible")
              ELSE calls
  /\ Exit(1, "exception")
  /\ UNCHANGED << argv, inputSize, dirOverhead, root, now, run, out, outputFolder,
                  admitted, inKb, bakKb, oldest, purged, root0, rootInit, prev, procs >>

\* Mutant: the else branch does not end the run.
AdmitFallsThrough ==
  /\ pc = "admit"
  /\ AdmitEvaluates
  /\ admitted' = CheckBackupPossible(inputSize, root, MaxBackupSize)
  /\ calls' = calls \o << "check_backup_possible",
                          IF admitted' THEN "returned True" ELSE "returned False" >>
  /\ pc' = "purge_init"
  /\ out' = IF admitted' THEN out
            ELSE Append(out, [msg |-> "too_large", path |-> None])
  /\ UNCHANGED << argv, inputSize, dirOverhead, root, now, run, outputFolder,
                  exitStatus, outcome, inKb, bakKb, oldest, purged, root0,
                  rootInit, prev, procs >>

\* Lines 142-146 and 156-158.
Admit ==
  /\ pc = "admit"
  /\ AdmitEvaluates
  /\ admitted' = CheckBackupPossible(inputSize, root, MaxBackupSize)
  /\ calls' = calls \o << "check_backup_possible",
                          IF admitted' THEN "returned True" ELSE "returned False" >>
  /\ IF admitted'
     THEN /\ pc' = "purge_init"
          /\ UNCHANGED << out, exitStatus, outcome >>
     ELSE /\ out' = Append(out, [msg |-> "too_large", path |-> None])
          /\ Exit(0, "too_large")
  /\ UNCHANGED << argv, inputSize, dirOverhead, root, now, run, outputFolder,
                  inKb, bakKb, oldest, purged, root0, rootInit, prev, procs >>

\* Lines 90-92.
PurgeInit ==
  /\ pc = "purge_init"
  /\ calls' = Append(calls, "purge_old_backups_as_required")
  /\ inKb' = inputSize
  /\ bakKb' = GetSizeKilobytesRoot(root)
  /\ oldest' = OldestInDirectory(root)
  /\ pc' = "purge_loop"
  /\ UNCHANGED << argv, inputSize, dirOverhead, root, now, run, exitStatus, outcome,
                  out, outputFolder, admitted, purged, root0, rootInit, prev, procs >>

\* Mutant: the loop stops one kilobyte early.
PurgeConditionOffByOne(backupKb, inputKb, maxKb, oldestEntry) ==
  backupKb + inputKb > maxKb + 1 /\ oldestEntry # None

\* The loop condition of lines 94-95.
PurgeCondition(backupKb, inputKb, maxKb, oldestEntry) ==
  backupKb + inputKb > maxKb /\ oldestEntry # None

\* Mutant: the backup folder is not measured again after a deletion.
PurgeStepStale ==
  /\ pc = "purge_loop"
  /\ PurgeCondition(bakKb, inKb, MaxBackupSize, oldest)
  /\ out' = Append(out, [msg |-> "purged", path |-> oldest])
  /\ purged' = Append(purged, [entry |-> EntryNamed(root, oldest), listing |-> root])
  /\ root' = RemoveEntry(root, oldest)
  /\ oldest' = OldestInDirectory(root')
  /\ UNCHANGED << argv, inputSize, dirOverhead, now, run, pc, exitStatus, outcome,
                  outputFolder, admitted, inKb, bakKb, calls, root0, rootInit, prev, procs >>

\* One iteration of the loop, lines 96-102.  remove_tree and os.remove both
\* take the entry out of the listing.
PurgeStep ==
  /\ pc = "purge_loop"
  /\ PurgeCondition(bakKb, inKb, MaxBackupSize, oldest)
  /\ out' = Append(out, [msg |-> "purged", path |-> oldest])
  /\ purged' = Append(purged, [entry |-> EntryNamed(root, oldest), listing |-> root])
  /\ root' = RemoveEntry(root, oldest)
  /\ oldest' = OldestInDirectory(root')
  /\ bakKb' = GetSizeKilobytesRoot(root')
  /\ UNCHANGED << argv, inputSize, dirOverhead, now, run, pc, exitStatus, outcome,
                  outputFolder, admitted, inKb, calls, root0, rootInit, prev, procs >>

\* The loop condition is false: purge_old_backups_as_required returns.
PurgeReturn ==
  /\ pc = "purge_loop"
  /\ ~PurgeCondition(bakKb, inKb, MaxBackupSize, oldest)
  /\ pc' = "create"
  /\ calls' = Append(calls, "purge returned")
  /\ UNCHANGED << argv, inputSize, dirOverhead, root, now, run, exitStatus, outcome,
                  out, outputFolder, admitted, inKb, bakKb, oldest, purged,
                  root0, rootInit, prev, procs >>

\* Mutant: the copy goes to a name other than the one that was checked.
NewBackupMisnamed == [name |-> outputFolder + 1, ctime |-> now, size |-> inputSize]

\* The entry copy_tree makes: named after the clock, as large as the input.
NewBackup == [name |-> outputFolder, ctime |-> now, size |-> inputSize]

\* Lines 105-111.  The new entry's ctime is later than every ctime in the
\* listing, so its place in os.listdir's order does not affect any sort;
\* it is listed last.
CreateNewBackup ==
  /\ pc = "create"
  /\ calls' = Append(calls, "create_new_backup")
  /\ IF OutputExists(outputFolder)
     THEN /\ out' = Append(out, [msg |-> "F", path |-> None])
          /\ UNCHANGED root
          /\ Exit(0, "F")
     ELSE /\ root' = Append(root, NewBackup)
          /\ out' = Append(out, [msg |-> "created", path |-> outputFolder])
          /\ Exit(0, "created")
  /\ UNCHANGED << argv, inputSize, dirOverhead, now, run, outputFolder,
                  admitted, inKb, bakKb, oldest, purged, root0, rootInit, prev, procs >>

\* The script is started again with the same command line, within the same
\* second or a second later.
NextRun ==
  /\ pc = "exit"
  /\ run < MaxRuns
  /\ run' = run + 1
  /\ now' \in {now, now + 1}
  /\ prev' = [second |-> now, outcome |-> outcome]
  /\ pc' = "validate"
  /\ exitStatus' = -1
  /\ outcome' = "running"
  /\ out' = << >>
  /\ outputFolder' = None
  /\ admitted' = FALSE
  /\ inKb' = 0
  /\ bakKb' = 0
  /\ oldest' = None
  /\ purged' = << >>
  /\ calls' = << >>
  /\ root0' = root
  /\ UNCHANGED << argv, inputSize, dirOverhead, root, rootInit, procs >>

Next ==
  \/ ValidateIndexError
  \/ Validate
  \/ NameCheck
  \/ AdmitRaises
  \/ Admit
  \/ PurgeInit
  \/ PurgeStep
  \/ PurgeReturn
  \/ CreateNewBackup
  \/ NextRun

Spec == Init /\ [][Next]_vars

(* --------- purge_old_backups_as_required called on its own ------------- *)
\* The function is called with any root, input and budget for which the
\* call can be made, whatever check_backup_possible says about them.
PurgeInputs ==
  { i \in SmallInputs \cup ScenarioInputs :
      /\ Len(i.argv) = 4
      /\ IntParses(i.argv[4])
      /\ PathExists(i.argv[2])
      /\ PathExists(i.argv[3]) }

PurgeCallInit ==
  /\ \E i \in PurgeInputs :
       /\ argv = i.argv
       /\ inputSize = i.inputSize
       /\ dirOverhead = i.dirOverhead
       /\ root = i.root
       /\ now = i.now
       /\ admitted = CheckBackupPossible(i.inputSize, i.root, PyInt(i.argv[4]))
  /\ run = 1
  /\ pc = "purge_init"
  /\ exitStatus = -1
  /\ outcome = "running"
  /\ out = << >>
  /\ outputFolder = now
  /\ inKb = 0
  /\ bakKb = 0
  /\ oldest = None
  /\ purged = << >>
  /\ calls = << >>
  /\ root0 = root
  /\ rootInit = root
  /\ prev = NoPrev
  /\ procs = NoProcs

PurgeNext ==
  \/ PurgeInit
  \/ PurgeStep
  \/ PurgeReturn

\* The interpreter runs the statements of the function one after the other.
PurgeSpec == PurgeCallInit /\ [][PurgeNext]_vars /\ WF_vars(PurgeNext)

(* ------------------- two runs on the same backup root ------------------ *)
\* Two processes run lines 136-158 with the same valid command line, the
\* second started in the same second as the first or a second later.  Each has its own locals; the
\* backup folder is shared.  A step is one access to the file system: the
\* collision check, the admission check, the measurements on entry to the
\* purge, a deletion, the measurements after a deletion, the copy.
ProcIds == {1, 2}

ConcInputs ==
  { i \in SmallInputs :
      /\ Len(i.argv) = 4
      /\ IsDecimal(i.argv[4])
      /\ PathExists(i.argv[2])
      /\ PathExists(i.argv[3]) }

NewProc(second) ==
  [pc |-> "name", second |-> second, admitted |-> FALSE, inKb |-> 0, bakKb |-> 0,
   oldest |-> None, purged |-> << >>, outcome |-> "running", exitStatus |-> -1,
   raced |-> FALSE]

ConcInit ==
  /\ \E i \in ConcInputs :
       /\ argv = i.argv
       /\ inputSize = i.inputSize
       /\ dirOverhead = i.dirOverhead
       /\ root = i.root
       /\ now = i.now
  /\ \E later \in {0, 1} :
       procs = [p \in ProcIds |-> NewProc(IF p = 1 THEN now ELSE now + later)]
  /\ run = 1
  /\ pc = "off"
  /\ exitStatus = -1
  /\ outcome = "running"
  /\ out = << >>
  /\ outputFolder = None
  /\ admitted = FALSE
  /\ inKb = 0
  /\ bakKb = 0
  /\ oldest = None
  /\ purged = << >>
  /\ calls = << >>
  /\ root0 = root
  /\ rootInit = root
  /\ prev = NoPrev

SharedUnchanged ==
  UNCHANGED << argv, inputSize, dirOverhead, now, run, pc, exitStatus, outcome, out,
               outputFolder, admitted, inKb, bakKb, oldest, purged, calls, root0,
               rootInit, prev >>

\* A process between its first measurement and its exit.
Active(q) == procs[q].pc \notin {"name", "exit"}

\* Process p changes its locals; if it changed the backup folder, every
\* other process that is in the middle of its run has been interfered with.
Step(p, new, changesRoot) ==
  procs' = [q \in ProcIds |->
              IF q = p THEN new
              ELSE IF changesRoot /\ Active(q)
                   THEN [procs[q] EXCEPT !.raced = TRUE]
                   ELSE procs[q]]

\* Lines 136-141.
ConcNameCheck(p) ==
  /\ procs[p].pc = "name"
  /\ Step(p, IF procs[p].second \in Names(root)
             THEN [procs[p] EXCEPT !.pc = "exit", !.outcome = "collision",
                                   !.exitStatus = 2]
             ELSE [procs[p] EXCEPT !.pc = "admit"], FALSE)
  /\ UNCHANGED root
  /\ SharedUnchanged

\* Lines 142-146 and 156-158.
ConcAdmit(p) ==
  /\ procs[p].pc = "admit"
  /\ LET ok == CheckBackupPossible(inputSize, root, MaxBackupSize)
     IN  Step(p, IF ok
                 THEN [procs[p] EXCEPT !.pc = "purge_init", !.admitted = TRUE]
                 ELSE [procs[p] EXCEPT !.pc = "exit", !.outcome = "too_large",
                                       !.exitStatus = 0], FALSE)
  /\ UNCHANGED root
  /\ SharedUnchanged

\* Lines 90-92.
ConcPurgeInit(p) ==
  /\ procs[p].pc = "purge_init"
  /\ Step(p, [procs[p] EXCEPT !.pc = "purge_loop",
                              !.inKb = inputSize,
                              !.bakKb = GetSizeKilobytesRoot(root),
                              !.oldest = OldestInDirectory(root)], FALSE)
  /\ UNCHANGED root
  /\ SharedUnchanged

ConcPurgeCondition(p) ==
  PurgeCondition(procs[p].bakKb, procs[p].inKb, MaxBackupSize, procs[p].oldest)

\* Lines 96-100: the entry is still there and is deleted.
ConcPurgeDelete(p) ==
  /\ procs[p].pc = "purge_loop"
  /\ ConcPurgeCondition(p)
  /\ procs[p].oldest \in Names(root)
  /\ root' = RemoveEntry(root, procs[p].oldest)
  /\ Step(p, [procs[p] EXCEPT !.pc = "purge_measure",
                              !.purged = Append(@, procs[p].oldest)], TRUE)
  /\ SharedUnchanged

\* Lines 96-100: the entry is gone; os.path.isdir is false, os.remove raises
\* FileNotFoundError and the process dies with status 1.
ConcPurgeDeleteRaises(p) ==
  /\ procs[p].pc = "purge_loop"
  /\ ConcPurgeCondition(p)
  /\ procs[p].oldest \notin Names(root)
  /\ Step(p, [procs[p] EXCEPT !.pc = "exit", !.outcome = "delete_missing",
                              !.exitStatus = 1], FALSE)
  /\ UNCHANGED root
  /\ SharedUnchanged

\* Lines 101-102.
ConcPurgeMeasure(p) ==
  /\ procs[p].pc = "purge_measure"
  /\ Step(p, [procs[p] EXCEPT !.pc = "purge_loop",
                              !.oldest = OldestInDirectory(root),
                              !.bakKb = GetSizeKilobytesRoot(root)], FALSE)
  /\ UNCHANGED root
  /\ SharedUnchanged

\* The loop condition is false: the purge returns.
ConcPurgeReturn(p) ==
  /\ procs[p].pc = "purge_loop"
  /\ ~ConcPurgeCondition(p)
  /\ Step(p, [procs[p] EXCEPT !.pc = "create"], FALSE)
  /\ UNCHANGED root
  /\ SharedUnchanged

\* The ctime of a copy: the time of the copy, not before the process
\* started and not before a copy already made by the other process.
CopyTime(p) ==
  LET seconds == { procs[q].second : q \in ProcIds }
      made == { root[i].ctime : i \in { j \in 1 .. Len(root) : root[j].name \in seconds } }
      times == made \cup {procs[p].second}
  IN  CHOOSE t \in times : \A u \in times : u <= t

\* Lines 105-111.
ConcCreate(p) ==
  /\ procs[p].pc = "create"
  /\ IF procs[p].second \in Names(root)
     THEN /\ UNCHANGED root
          /\ Step(p, [procs[p] EXCEPT !.pc = "exit", !.outcome = "F",
                                      !.exitStatus = 0], FALSE)
     ELSE /\ root' = Append(root, [name |-> procs[p].second, ctime |-> CopyTime(p),
                                   size |-> inputSize])
          /\ Step(p, [procs[p] EXCEPT !.pc = "exit", !.outcome = "created",
                                      !.exitStatus = 0], TRUE)
  /\ SharedUnchanged

ConcNext ==
  \E p \in ProcIds :
    \/ ConcNameCheck(p)
    \/ ConcAdmit(p)
    \/ ConcPurgeInit(p)
    \/ ConcPurgeDelete(p)
    \/ ConcPurgeDeleteRaises(p)
    \/ ConcPurgeMeasure(p)
    \/ ConcPurgeReturn(p)
    \/ ConcCreate(p)

ConcSpec == ConcInit /\ [][ConcNext]_vars

(* ------------------------- claims: helpers ----------------------------- *)
Range(q) == { q[i] : i \in 1 .. Len(q) }

Finished == pc = "exit"

\* The four validation conditions of the interface: exactly three
\* positional arguments, both paths exist, the cap is a string of digits.
ArgsValid ==
  /\ Len(argv) = 4
  /\ PathExists(argv[2])
  /\ PathExists(argv[3])
  /\ IsDecimal(argv[4])

Deleted == { purged[i].entry : i \in 1 .. Len(purged) }

Survivors == SelectSeq(root0, LAMBDA e : e \notin Deleted)

NoSideEffects == root = root0 /\ purged = << >>

\* Size of the entry with the greatest ctime, the last-listed one among
\* equals; 0 for an empty listing.
NewestSize(r) ==
  IF Len(r) = 0 THEN 0
  ELSE LET m == CHOOSE t \in { r[i].ctime : i \in 1 .. Len(r) } :
                  \A i \in 1 .. Len(r) : r[i].ctime <= t
           k == CHOOSE i \in 1 .. Len(r) :
                  r[i].ctime = m /\ \A j \in 1 .. Len(r) : r[j].ctime = m => j <= i
       IN  r[k].size

(* ------------------------------ claims --------------------------------- *)

C2_NewestSurvives ==
  (admitted /\ Len(root0) >= 2 /\ pc \in {"create", "exit"})
    => NewestInDirectory(root0) \in Names(root)

\* C3: when purge_old_backups_as_required returns after a granted admission,
\* the measured root plus the input fit the budget or the root is empty.
C3_EvictionPostcondition ==
  (admitted /\ pc = "create")
    => \/ dirOverhead + SumSizes(root) + inputSize <= MaxBackupSize
       \/ Len(root) = 0

C3_Witness == admitted /\ pc = "create" /\ Len(purged) >= 1 /\ Len(root) >= 1

\* At each deletion the deleted entry was not the newest of the listing
\* while an entry older than the newest was present.
NotNewestWhileOlder ==
  \A k \in 1 .. Len(purged) :
    LET r == purged[k].listing
        newest == EntryNamed(r, NewestInDirectory(r))
    IN  (\E i \in 1 .. Len(r) : r[i].ctime < newest.ctime)
          => purged[k].entry.name # newest.name

\* C4 as stated: within one purge the deleted entries have strictly
\* increasing ctime, and no deletion takes the newest while older remain.
C4_StrictlyIncreasing ==
  /\ \A i, j \in 1 .. Len(purged) :
       i < j => purged[i].entry.ctime < purged[j].entry.ctime
  /\ NotNewestWhileOlder

\* C4 amended: within one purge the deleted entries have non-decreasing
\* ctime, each deleted entry had the least ctime of the listing it was
\* deleted from, and no deletion takes the newest while older remain.
C4_OldestFirst ==
  /\ \A i, j \in 1 .. Len(purged) :
       i < j => purged[i].entry.ctime <= purged[j].entry.ctime
  /\ \A k \in 1 .. Len(purged) :
       \A i \in 1 .. Len(purged[k].listing) :
         purged[k].entry.ctime <= purged[k].listing[i].ctime
  /\ NotNewestWhileOlder

C4_Witness ==
  /\ Len(purged) >= 2
  /\ purged[1].entry.ctime < purged[2].entry.ctime
  /\ purged[1].entry.name > purged[2].entry.name

\* C5: check_backup_possible returns true exactly when the input size is at
\* most the budget minus the size of the newest entry (0 for an empty root),
\* and the root is the same after the check as before.
C5_AdmissionPredicate ==
  /\ ("returned True" \in Range(calls) \/ "returned False" \in Range(calls))
       => (admitted <=> inputSize + NewestSize(root0) <= MaxBackupSize)
  /\ (pc = "purge_init" \/ outcome = "too_large") => root = root0

C5_Witness ==
  /\ pc = "purge_init" /\ admitted
  /\ Len(root0) >= 2
  /\ NewestSize(root0) > 0
  /\ inputSize + NewestSize(root0) = MaxBackupSize

\* C6: a run in which check_backup_possible returns false prints the "too
\* large" message, deletes nothing, creates nothing and exits with status 0.
C6_AdmissionFailure ==
  "returned False" \in Range(calls)
    => /\ Finished
       /\ exitStatus = 0
       /\ out = << [msg |-> "too_large", path |-> None] >>
       /\ calls = << "check_backup_possible", "returned False" >>
       /\ NoSideEffects

C6_Witness ==
  /\ "returned False" \in Range(calls)
  /\ Len(root0) = 1
  /\ inputSize <= MaxBackupSize
  /\ exitStatus = 0

\* C7: a run with valid arguments whose output path already exists ends
\* with the conflict message and exit status 2; no admission check, no
\* eviction and no copy happen and the root is unchanged.
C7_NamingCollision ==
  (ArgsValid /\ now \in Names(root0))
    => /\ pc \in {"validate", "name", "exit"}
       /\ calls = << >>
       /\ NoSideEffects
       /\ Finished =>
            /\ exitStatus = 2
            /\ out = << [msg |-> "conflict", path |-> now] >>

C7_Witness == ArgsValid /\ now \in Names(root0) /\ Finished /\ exitStatus = 2

\* C8: a run whose arguments fail validation prints the usage message and
\* exits with status 1; a run whose arguments pass does not.
C8_ArgumentValidation ==
  Finished =>
    /\ ~ArgsValid =>
         /\ exitStatus = 1
         /\ out = << [msg |-> "usage", path |-> None] >>
    /\ ArgsValid => outcome # "usage"

\* C9: a run with invalid arguments ends with a non-zero exit status, and
\* deletes nothing and creates nothing on the way.
C9_UsageErrorNoSideEffects ==
  ~ArgsValid
    => /\ NoSideEffects
       /\ "purge_old_backups_as_required" \notin Range(calls)
       /\ "create_new_backup" \notin Range(calls)
       /\ Finished => exitStatus # 0

SameSecondRerun == run >= 2 /\ prev.second = now

\* C10 as stated: a second run in the same second (taken here with valid
\* arguments) ends in the naming collision and changes nothing, whatever
\* the first run's outcome.
C10_SameSecondRerun ==
  (SameSecondRerun /\ ArgsValid)
    => /\ NoSideEffects
       /\ Finished => exitStatus = 2

\* C10 amended: a second run in the same second as a run that created its
\* backup or itself ended in the naming collision ends in the naming
\* collision (exit status 2) and deletes and creates nothing.
C10_RerunAfterBackup ==
  (SameSecondRerun /\ prev.outcome \in {"created", "collision"})
    => /\ NoSideEffects
       /\ pc \in {"validate", "name", "exit"}
       /\ Finished => (exitStatus = 2 /\ outcome = "collision")

C10_Witness ==
  /\ SameSecondRerun /\ prev.outcome = "created"
  /\ Finished /\ exitStatus = 2
  /\ Len(root) > Len(rootInit)

\* C11: when the input is larger than the budget, check_backup_possible is
\* false for every root, the empty one included, and the run deletes
\* nothing and creates nothing.
C11_OversizedInputRefused ==
  (Len(argv) >= 4 /\ IntParses(argv[4]) /\ inputSize > MaxBackupSize)
    => /\ ~admitted
       /\ "returned True" \notin Range(calls)
       /\ pc \notin {"purge_init", "purge_loop", "create"}
       /\ NoSideEffects
       /\ outcome \notin {"created", "F"}

C11_Witness ==
  /\ "returned False" \in Range(calls)
  /\ MaxBackupSize >= 0
  /\ inputSize > MaxBackupSize
  /\ Len(root0) = 0

\* What du reports for a listing of the backup folder plus the input.
MeasuredWith(r) == dirOverhead + SumSizes(r) + inputSize

PurgedEntries == [k \in 1 .. Len(purged) |-> purged[k].entry]

IsScenario(sc) == argv = ScenarioArgv /\ rootInit = sc.root /\ inputSize = sc.inputSize

\* C12: an entry is deleted only when the measured root plus the input
\* exceed the budget at that moment; when the purge returns (the program
\* is about to call create_new_backup), the deleted entries are the
\* shortest oldest-first prefix of the root whose removal makes the rest
\* fit (all entries if none does).  With an empty
\* root, a 10 KB input and a budget of 100 nothing is deleted and the root
\* ends with the one new backup; with three 30 KB entries, a 15 KB input
\* and a budget of 100 the oldest entry alone is deleted and the root ends
\* with the middle entry, the newest entry and the new backup.
C12_MinimalEviction ==
  /\ \A k \in 1 .. Len(purged) : MeasuredWith(purged[k].listing) > MaxBackupSize
  /\ pc = "create" =>
       LET sorted == SortedByCtime(root0)
           n == Len(purged)
           Rest(k) == SubSeq(sorted, k + 1, Len(sorted))
       IN  /\ n <= Len(sorted)
           /\ PurgedEntries = SubSeq(sorted, 1, n)
           /\ \A k \in 0 .. n - 1 : MeasuredWith(Rest(k)) > MaxBackupSize
           /\ n < Len(sorted) => MeasuredWith(Rest(n)) <= MaxBackupSize
  /\ (run = 1 /\ Finished /\ IsScenario(Scenario1)) =>
       /\ purged = << >>
       /\ root = << [name |-> 1, ctime |-> 1, size |-> 10] >>
  /\ (run = 1 /\ Finished /\ IsScenario(Scenario3)) =>
       /\ PurgedEntries = << Scenario3.root[1] >>
       /\ root = << Scenario3.root[2], Scenario3.root[3],
                    [name |-> 4, ctime |-> 4, size |-> 15] >>

C12_Witness ==
  /\ run = 1 /\ Finished /\ IsScenario(Scenario3)
  /\ outcome = "created"
  /\ Len(purged) = 1
  /\ Len(root) = 3

\* C13: purge_old_backups_as_required returns, whether or not admission
\* held for its arguments; every iteration takes exactly one entry out of
\* the root, so there are at most as many deletions as entries.
C13_EvictionTerminates ==
  /\ <>(pc = "create")
  /\ [](/\ Len(purged) <= Len(root0)
        /\ Len(root) = Len(root0) - Len(purged)
        /\ \A k \in 1 .. Len(purged) :
             /\ Len(purged[k].listing) = Len(root0) - (k - 1)
             /\ purged[k].entry \in Range(purged[k].listing)
             /\ \A j \in 1 .. k - 1 : purged[j].entry # purged[k].entry)

C13_Witness ==
  /\ pc = "create"
  /\ ~admitted
  /\ Len(root0) = MaxEntries
  /\ Len(purged) = Len(root0)

\* Number of times an event is in the call log.
Count(q, x) == Cardinality({ i \in 1 .. Len(q) : q[i] = x })

\* The call log is a prefix of the one order the script allows.
OrchestrationOrder ==
  << "check_backup_possible", "returned True", "purge_old_backups_as_required",
     "purge returned", "create_new_backup" >>

\* C14: within a run, entries are deleted only after check_backup_possible
\* has returned true; the copy starts only after the purge has returned; no
\* deletion follows the start of the copy; there is at most one copy.
C14_OrchestrationOrder ==
  /\ purged # << >> =>
       /\ Len(calls) >= 3
       /\ SubSeq(calls, 1, 3) = SubSeq(OrchestrationOrder, 1, 3)
  /\ root # root0 => "returned True" \in Range(calls)
  /\ "create_new_backup" \in Range(calls) =>
       /\ calls = OrchestrationOrder
       /\ Finished
  /\ pc \in {"purge_init", "purge_loop"} => "create_new_backup" \notin Range(calls)
  /\ Count(calls, "create_new_backup") <= 1
  /\ Len(root) <= Len(root0) + 1
  /\ Len(root) > Len(root0) - Len(purged) => outcome = "created"

C14_Witness ==
  /\ Finished /\ outcome = "created"
  /\ Len(purged) >= 1
  /\ calls = OrchestrationOrder

\* The run started with one entry, was admitted, and deleted that entry.
SingleEntryEvicted ==
  /\ Len(root0) = 1
  /\ admitted
  /\ Len(purged) = 1

\* C15: a run that starts with exactly one entry can be admitted and then
\* delete that entry.  Whenever it happens, the entry is both the oldest
\* and the newest, it fitted by the admission's measure (its own size plus
\* the input within the budget) and not by the loop's (du of the whole
\* backup folder plus the input above the budget).
C15_SingleEntryEdgeCase ==
  SingleEntryEvicted
    => /\ purged[1].entry = root0[1]
       /\ OldestInDirectory(root0) = NewestInDirectory(root0)
       /\ root0[1].size + inputSize <= MaxBackupSize
       /\ dirOverhead + SumSizes(root0) + inputSize > MaxBackupSize
       /\ dirOverhead > 0
       /\ Len(root) <= 1

C15_Witness ==
  /\ SingleEntryEvicted
  /\ Finished /\ outcome = "created"
  /\ Names(root) = {outputFolder}

Ctimes(r) == { r[i].ctime : i \in 1 .. Len(r) }

\* C17: on an empty directory oldest_in_directory and newest_in_directory
\* return None, on a directory of one entry both return that entry, and
\* otherwise they return a child of the least and of the greatest ctime;
\* stated of the directory as it is where the program ranks it, on entry
\* to check_backup_possible and at every test of the purge loop.
C17_DirectoryRanker ==
  pc \in {"admit", "purge_loop"} =>
    LET o == OldestInDirectory(root)
        n == NewestInDirectory(root)
    IN  /\ Len(root) = 0 => (o = None /\ n = None)
        /\ Len(root) = 1 => (o = root[1].name /\ n = root[1].name)
        /\ Len(root) >= 1 =>
             /\ o \in Names(root)
             /\ n \in Names(root)
             /\ \A t \in Ctimes(root) :
                  EntryNamed(root, o).ctime <= t /\ t <= EntryNamed(root, n).ctime
        /\ pc = "purge_loop" => oldest = o

C17_Witness ==
  /\ pc = "purge_loop"
  /\ Len(root) >= 2
  /\ root[1].ctime > root[2].ctime
  /\ oldest = root[2].name
  /\ NewestInDirectory(root) = root[1].name

\* First-listed entry of the least ctime, last-listed of the greatest.
FirstListedOldest(r) ==
  r[CHOOSE i \in 1 .. Len(r) :
      /\ \A t \in Ctimes(r) : r[i].ctime <= t
      /\ \A j \in 1 .. i - 1 : r[j].ctime # r[i].ctime].name

LastListedNewest(r) ==
  r[CHOOSE i \in 1 .. Len(r) :
      /\ \A t \in Ctimes(r) : t <= r[i].ctime
      /\ \A j \in i + 1 .. Len(r) : r[j].ctime # r[i].ctime].name

\* C18: in a directory of two or more entries oldest_in_directory and
\* newest_in_directory name different entries, equal timestamps or not:
\* the first-listed of the least ctime and the last-listed of the greatest.
\* So an entry chosen for deletion is the newest one only when it is the
\* only entry.  The directory is taken where the program ranks it, on
\* entry to check_backup_possible and at every test of the purge loop.
C18_TieHandling ==
  /\ (pc \in {"admit", "purge_loop"} /\ Len(root) >= 2) =>
       /\ OldestInDirectory(root) # NewestInDirectory(root)
       /\ OldestInDirectory(root) = FirstListedOldest(root)
       /\ NewestInDirectory(root) = LastListedNewest(root)
  /\ pc = "purge_loop" /\ oldest # None /\ oldest = NewestInDirectory(root)
       => Len(root) = 1
  /\ \A k \in 1 .. Len(purged) :
       purged[k].entry.name = NewestInDirectory(purged[k].listing)
         => Len(purged[k].listing) = 1

C18_Witness ==
  /\ Len(purged) >= 1
  /\ Len(purged[1].listing) >= 2
  /\ Cardinality(Ctimes(purged[1].listing)) = 1
  /\ purged[1].entry = purged[1].listing[1]
  /\ NewestInDirectory(purged[1].listing) # purged[1].entry.name

\* C19: create_new_backup is only called with an output path that does not
\* exist, so its "already exists" branch is never taken and every run that
\* calls it ends with the new backup at the output path.
C19_ConflictBranchDead ==
  /\ pc = "create" => outputFolder \notin Names(root)
  /\ outcome # "F"
  /\ \A i \in 1 .. Len(out) : out[i].msg # "F"
  /\ "create_new_backup" \in Range(calls) =>
       /\ outcome = "created"
       /\ outputFolder \notin Names(root0)
       /\ root[Len(root)] = [name |-> outputFolder, ctime |-> now, size |-> inputSize]
       /\ Cardinality(Names(root)) = Len(root)

C19_Witness ==
  /\ "create_new_backup" \in Range(calls)
  /\ Len(purged) >= 1
  /\ Len(root) >= 2
  /\ run = 2

\* A process tried to delete an entry that was no longer there.
DoubleDelete(p) == procs[p].outcome = "delete_missing"

\* Both processes made their copy and the entries exceed the budget.
BothCopiedOverBudget ==
  /\ \A p \in ProcIds : procs[p].outcome = "created"
  /\ SumSizes(root) > MaxBackupSize

\* C16: with the steps of two runs interleaved, a run can try to delete an
\* entry the other run has deleted, and both runs can be admitted and copy
\* so that the root ends above the budget.  Neither happens unless a run
\* changed the backup folder while the other was in the middle of its own
\* run: an attempt to delete a missing entry is an attempt on an entry the
\* other run deleted, and executions in which the runs do not overlap never
\* end above the budget.
C16_BadOnlyWhenInterleaved ==
  /\ \A p \in ProcIds :
       DoubleDelete(p) =>
         /\ procs[p].raced
         /\ \E q \in ProcIds \ {p} : procs[p].oldest \in Range(procs[q].purged)
  /\ BothCopiedOverBudget => \E p \in ProcIds : procs[p].raced

C16_Witness ==
  /\ BothCopiedOverBudget
  /\ SumSizes(rootInit) <= MaxBackupSize
  /\ \A p \in ProcIds : procs[p].purged = << >>

C16_WitnessDoubleDelete ==
  \E p \in ProcIds :
    /\ DoubleDelete(p)
    /\ \E q \in ProcIds \ {p} : procs[q].outcome = "created"

====
